---------------------------- MODULE Spec2Model ----------------------------
(***************************************************************************)
(* Model of ClientSignature (examples/common/python/utility/signature.py): *)
(* payload validation, inData encryption, canonical hashing, request       *)
(* signing and response signature verification.                            *)
(*                                                                         *)
(* JSON objects are functions whose domain is the set of keys present.     *)
(* Byte strings and text are TLA+ strings; + on them is \o.                *)
(* A Python call either returns or raises: helpers that can raise return   *)
(* [raised, val, calls], where calls lists the crypto primitives invoked.  *)
(***************************************************************************)
EXTENDS Integers, Sequences, FiniteSets, TLC

VARIABLES
    response,          \* verify_signature: the parsed response_str
    worker,            \* the worker descriptor handed to either entry point
    status,            \* what the last verify_signature call ended with
    crypto_calls,      \* crypto primitives that call invoked, in order
    passed_before,     \* the response was derived from one that PASSED
    request,           \* generate_client_signature: the parsed input_json_str
    private_key,       \* generate_client_signature: the caller's private key
    sign_out,          \* what the last generate_client_signature call ended with
    check_out,         \* what __payload_json_check returned in that call
    self_private_key,  \* ClientSignature.private_key
    self_public_key,   \* ClientSignature.public_key
    tasks,             \* concurrent generate_client_signature calls on the object
    data_objects,      \* a list of data items as it arrives
    permuted_objects,  \* the same items in another arrival order
    hash_out,          \* item hashes of both lists after sorting by index
    header_params,     \* two payloads whose header hash is taken
    header_nonce,      \* the nonce digest both header hashes start with
    header_out         \* the header hashes of the two payloads

vars == <<response, worker, status, crypto_calls, passed_before, request,
          private_key, sign_out, check_out, self_private_key, self_public_key,
          tasks, data_objects, permuted_objects, hash_out, header_params,
          header_nonce, header_out>>

(***************************************************************************)
(* Bounds of the model.                                                    *)
(***************************************************************************)
MaxItems == 2
MaxIndex == 2

(***************************************************************************)
(* Crypto provider (crypto.crypto, utility.utility).  Its code is not part *)
(* of the sources at hand; it is modelled as the ideal primitives the      *)
(* specification assumes: a collision-free hash, an injective encoding, an *)
(* unforgeable signature.  Each value is the term that built it.           *)
(***************************************************************************)
compute_message_hash(bytes) == "H(" \o bytes \o ")"

byte_array_to_base64(bytes) == "b64[" \o bytes \o "]"

encrypt_data(data, key, iv) == "E(" \o key \o "," \o iv \o "," \o data \o ")"

hex_string(bytes) == "hex[" \o bytes \o "]"

PrivateKeys == {"k1", "k2"}

\* A key pair: the serialized public key of a private key.
GetPublicKey(priv) == "pub:" \o priv

SignMessage(priv, hash) == "S(" \o priv \o "," \o hash \o ")"

HasPrefix(s, prefix) ==
    Len(s) >= Len(prefix) /\ SubSeq(s, 1, Len(prefix)) = prefix

\* crypto.SIG_PublicKey(str) raises unless str is a serialized public key.
SIG_PublicKey_parses(verify_key) == HasPrefix(verify_key, "pub:")

\* crypto.base64_to_byte_array: the inverse of byte_array_to_base64.
IsBase64(s) ==
    /\ HasPrefix(s, "b64[")
    /\ Len(s) >= 5
    /\ SubSeq(s, Len(s), Len(s)) = "]"

base64_to_byte_array(s) == SubSeq(s, 5, Len(s) - 1)

\* SIG_PublicKey.VerifySignature: 1 the signature is by the key's private
\* key over hash, 0 it is a signature but not that one, -1 it is no signature.
VerifySignature(verify_key, hash, sig) ==
    IF \E priv \in PrivateKeys :
          /\ verify_key = GetPublicKey(priv)
          /\ sig = SignMessage(priv, hash)
    THEN 1
    ELSE IF HasPrefix(sig, "S(") THEN 0 ELSE -1

(***************************************************************************)
(* Results of a call that may raise.                                       *)
(***************************************************************************)
Returned(v, c) == [raised |-> FALSE, val |-> v, calls |-> c]

Raised(e, c) == [raised |-> TRUE, val |-> e, calls |-> c]

Has(obj, key) == key \in DOMAIN obj

\* obj.pop(key) and obj[key] = v, as values.
Drop(obj, key) == [k \in DOMAIN obj \ {key} |-> obj[k]]

With(obj, key, v) == [k \in DOMAIN obj \cup {key} |-> IF k = key THEN v ELSE obj[k]]

(***************************************************************************)
(* The locally configured algorithms: tcs_config.toml, [WorkerConfig].     *)
(***************************************************************************)
tcs_worker ==
    [HashingAlgorithm |-> "SHA-256", SigningAlgorithm |-> "SECP256K1"]

(***************************************************************************)
(* list.sort(key = lambda x: x['index']): a stable sort; the key function  *)
(* raises KeyError on an item without index.                               *)
(***************************************************************************)
RECURSIVE InsertByIndex(_, _)
InsertByIndex(sorted, item) ==
    IF sorted = <<>> THEN <<item>>
    ELSE IF Head(sorted).index <= item.index
         THEN <<Head(sorted)>> \o InsertByIndex(Tail(sorted), item)
         ELSE <<item>> \o sorted

RECURSIVE StableSort(_)
StableSort(objs) ==
    IF objs = <<>> THEN <<>>
    ELSE InsertByIndex(StableSort(SubSeq(objs, 1, Len(objs) - 1)),
                       objs[Len(objs)])

\* Mutant: the list is left in its order of arrival.
sort_by_index_unsorted(objs) ==
    IF \E i \in 1..Len(objs) : ~Has(objs[i], "index")
    THEN Raised("KeyError", <<>>)
    ELSE Returned(objs, <<>>)

sort_by_index(objs) ==
    IF \E i \in 1..Len(objs) : ~Has(objs[i], "index")
    THEN Raised("KeyError", <<>>)
    ELSE Returned(StableSort(objs), <<>>)

(***************************************************************************)
(* __calculate_hash_on_concatenated_string                                 *)
(***************************************************************************)
\* The header hash without workloadId.
calculate_hash_on_concatenated_string_no_workload(input_json_params, nonce_hash) ==
    IF \/ ~Has(input_json_params, "workOrderId")
       \/ ~Has(input_json_params, "workerId")
       \/ ~Has(input_json_params, "requesterId")
    THEN Raised("KeyError", <<>>)
    ELSE Returned(byte_array_to_base64(compute_message_hash(
                      nonce_hash \o input_json_params.workOrderId
                          \o input_json_params.workerId
                          \o input_json_params.requesterId)), <<"hash">>)

calculate_hash_on_concatenated_string(input_json_params, nonce_hash) ==
    IF \/ ~Has(input_json_params, "workOrderId")
       \/ ~Has(input_json_params, "workerId")
       \/ ~Has(input_json_params, "requesterId")
    THEN Raised("KeyError", <<>>)
    ELSE LET workorder_id == input_json_params.workOrderId
             worker_id    == input_json_params.workerId
             workload_id  == IF Has(input_json_params, "workloadId")
                             THEN input_json_params.workloadId ELSE ""
             requester_id == input_json_params.requesterId
             concat_string == nonce_hash \o workorder_id \o worker_id
                                  \o workload_id \o requester_id
             hash_1 == compute_message_hash(concat_string)
         IN  Returned(byte_array_to_base64(hash_1), <<"hash">>)

(***************************************************************************)
(* __calculate_datahash                                                    *)
(***************************************************************************)
RECURSIVE calculate_datahash(_)
calculate_datahash(objs) ==
    IF objs = <<>> THEN Returned("", <<>>)
    ELSE LET item == Head(objs) IN
         IF \/ ~Has(item, "data")
            \/ ~Has(item, "encryptedDataEncryptionKey")
            \/ ~Has(item, "iv")
         THEN Raised("KeyError", <<>>)
         ELSE LET datahash == IF Has(item, "dataHash") THEN item.dataHash ELSE ""
                  concat_string == datahash \o item.data
                                       \o item.encryptedDataEncryptionKey \o item.iv
                  hash == compute_message_hash(concat_string)
                  rest == calculate_datahash(Tail(objs))
              IN  IF rest.raised
                  THEN Raised(rest.val, <<"hash">> \o rest.calls)
                  ELSE Returned(byte_array_to_base64(hash) \o rest.val,
                                <<"hash">> \o rest.calls)

(***************************************************************************)
(* data_objects.sort(key = lambda x: x['index']) followed by               *)
(* __calculate_datahash(data_objects), as signer and verifier do.          *)
(***************************************************************************)
sorted_datahash(objs) ==
    LET sorted == sort_by_index(objs)
        hashed == calculate_datahash(sorted.val)
    IN  IF sorted.raised THEN sorted ELSE hashed

(***************************************************************************)
(* verify_signature.  base64_decodes says what base64_to_byte_array does   *)
(* with a string that is not base64: TRUE it returns the bytes it could    *)
(* decode, FALSE it raises.                                                *)
(***************************************************************************)
\* Mutant: the response path hashes the nonce as the request path does.
VerifyDigest_rehashed_nonce(input_json_params) ==
    LET nonce == byte_array_to_base64(
                     compute_message_hash(input_json_params.workerNonce))
        hash_string_1 ==
            calculate_hash_on_concatenated_string(input_json_params, nonce)
        sorted == sort_by_index(input_json_params.outData)
        hash_string_2 == calculate_datahash(sorted.val)
    IN  IF hash_string_1.raised THEN hash_string_1
        ELSE IF ~Has(input_json_params, "outData")
             THEN Raised("KeyError", hash_string_1.calls)
        ELSE IF sorted.raised THEN Raised(sorted.val, hash_string_1.calls)
        ELSE IF hash_string_2.raised
             THEN Raised(hash_string_2.val,
                         hash_string_1.calls \o hash_string_2.calls)
        ELSE Returned(
                 compute_message_hash(hash_string_1.val \o hash_string_2.val),
                 hash_string_1.calls \o hash_string_2.calls \o <<"hash">>)

VerifyDigest(input_json_params) ==
    LET nonce == input_json_params.workerNonce
        hash_string_1 ==
            calculate_hash_on_concatenated_string(input_json_params, nonce)
        sorted == sort_by_index(input_json_params.outData)
        hash_string_2 == calculate_datahash(sorted.val)
    IN  IF hash_string_1.raised THEN hash_string_1
        ELSE IF ~Has(input_json_params, "outData")
             THEN Raised("KeyError", hash_string_1.calls)
        ELSE IF sorted.raised THEN Raised(sorted.val, hash_string_1.calls)
        ELSE IF hash_string_2.raised
             THEN Raised(hash_string_2.val,
                         hash_string_1.calls \o hash_string_2.calls)
        ELSE Returned(
                 compute_message_hash(hash_string_1.val \o hash_string_2.val),
                 hash_string_1.calls \o hash_string_2.calls \o <<"hash">>)

\* Mutant: the two failure outcomes of VerifySignature are swapped.
VerifyWithKey_swapped_failure(input_json_params, verify_key, base64_decodes) ==
    LET signature == input_json_params.workerSignature
        final_hash == VerifyDigest(input_json_params)
        decoded_signature ==
            IF IsBase64(signature) THEN base64_to_byte_array(signature)
            ELSE ""
        sig_result ==
            VerifySignature(verify_key, final_hash.val, decoded_signature)
    IN  IF final_hash.raised THEN final_hash
        ELSE IF ~SIG_PublicKey_parses(verify_key)
             THEN Returned("INVALID_VERIFICATION_KEY",
                           final_hash.calls \o <<"SIG_PublicKey">>)
        ELSE IF ~IsBase64(signature) /\ ~base64_decodes
             THEN Raised("ValueError",
                         final_hash.calls \o <<"SIG_PublicKey", "base64_decode">>)
        ELSE Returned(
                 IF sig_result = 1 THEN "PASSED"
                 ELSE IF sig_result = 0 THEN "INVALID_SIGNATURE_FORMAT"
                 ELSE "FAILED",
                 final_hash.calls
                     \o <<"SIG_PublicKey", "base64_decode", "VerifySignature">>)

\* Mutant: the signature is decoded before the verification key is parsed.
VerifyWithKey_decode_first(input_json_params, verify_key, base64_decodes) ==
    LET signature == input_json_params.workerSignature
        final_hash == VerifyDigest(input_json_params)
        decoded_signature ==
            IF IsBase64(signature) THEN base64_to_byte_array(signature)
            ELSE ""
        sig_result ==
            VerifySignature(verify_key, final_hash.val, decoded_signature)
    IN  IF final_hash.raised THEN final_hash
        ELSE IF ~IsBase64(signature) /\ ~base64_decodes
             THEN Raised("ValueError", final_hash.calls \o <<"base64_decode">>)
        ELSE IF ~SIG_PublicKey_parses(verify_key)
             THEN Returned("INVALID_VERIFICATION_KEY",
                           final_hash.calls \o <<"base64_decode", "SIG_PublicKey">>)
        ELSE Returned(
                 IF sig_result = 1 THEN "PASSED"
                 ELSE IF sig_result = 0 THEN "FAILED"
                 ELSE "INVALID_SIGNATURE_FORMAT",
                 final_hash.calls
                     \o <<"base64_decode", "SIG_PublicKey", "VerifySignature">>)

VerifyWithKey(input_json_params, verify_key, base64_decodes) ==
    LET signature == input_json_params.workerSignature
        final_hash == VerifyDigest(input_json_params)
        decoded_signature ==
            IF IsBase64(signature) THEN base64_to_byte_array(signature)
            ELSE ""
        sig_result ==
            VerifySignature(verify_key, final_hash.val, decoded_signature)
    IN  IF final_hash.raised THEN final_hash
        ELSE IF ~SIG_PublicKey_parses(verify_key)
             THEN Returned("INVALID_VERIFICATION_KEY",
                           final_hash.calls \o <<"SIG_PublicKey">>)
        ELSE IF ~IsBase64(signature) /\ ~base64_decodes
             THEN Raised("ValueError",
                         final_hash.calls \o <<"SIG_PublicKey", "base64_decode">>)
        ELSE Returned(
                 IF sig_result = 1 THEN "PASSED"
                 ELSE IF sig_result = 0 THEN "FAILED"
                 ELSE "INVALID_SIGNATURE_FORMAT",
                 final_hash.calls
                     \o <<"SIG_PublicKey", "base64_decode", "VerifySignature">>)

\* Mutant: a negative result code is not looked at.
VerifyResult_no_code_check(input_json_params, w, base64_decodes) ==
    IF ~Has(input_json_params, "workerNonce")
    THEN Raised("KeyError", <<>>)
    ELSE IF ~Has(input_json_params, "workerSignature")
    THEN Raised("KeyError", <<>>)
    ELSE VerifyWithKey(input_json_params,
                       w.worker_typedata_verification_key, base64_decodes)

VerifyResult(input_json_params, w, base64_decodes) ==
    IF Has(input_json_params, "code") /\ input_json_params.code < 0
    THEN Returned("ERROR_RESPONSE", <<>>)
    ELSE IF ~Has(input_json_params, "workerNonce")
    THEN Raised("KeyError", <<>>)
    ELSE IF ~Has(input_json_params, "workerSignature")
    THEN Raised("KeyError", <<>>)
    ELSE VerifyWithKey(input_json_params,
                       w.worker_typedata_verification_key, base64_decodes)

\* Mutant: the signing algorithm is not compared.
verify_signature_no_signing_check(resp, w, base64_decodes) ==
    IF tcs_worker.HashingAlgorithm # w.hashing_algorithm
    THEN Returned("ERROR_RESPONSE", <<>>)
    ELSE IF Has(resp, "error")
    THEN Returned("ERROR_RESPONSE", <<>>)
    ELSE IF ~Has(resp, "result")
    THEN Raised("KeyError", <<>>)
    ELSE VerifyResult(resp.result, w, base64_decodes)

verify_signature(resp, w, base64_decodes) ==
    IF tcs_worker.HashingAlgorithm # w.hashing_algorithm
    THEN Returned("ERROR_RESPONSE", <<>>)
    ELSE IF tcs_worker.SigningAlgorithm # w.signing_algorithm
    THEN Returned("ERROR_RESPONSE", <<>>)
    ELSE IF Has(resp, "error")
    THEN Returned("ERROR_RESPONSE", <<>>)
    ELSE IF ~Has(resp, "result")
    THEN Raised("KeyError", <<>>)
    ELSE VerifyResult(resp.result, w, base64_decodes)

(***************************************************************************)
(* __payload_json_check: whether the mandatory parameters are there, with  *)
(* the errors it logs.                                                     *)
(***************************************************************************)
param_pool ==
    <<"requesterNonce", "workOrderId", "workerId", "requesterId", "inData">>

\* Mutant: an empty data string is accepted.
InDataItemValid_empty_data(obj) ==
    ~(~Has(obj, "data") \/ ~Has(obj, "index"))

InDataItemValid(obj) ==
    ~(~Has(obj, "data") \/ obj.data = "" \/ ~Has(obj, "index"))

RECURSIVE InDataErrors(_)
InDataErrors(i_obj) ==
    IF i_obj = <<>> THEN <<>>
    ELSE (IF InDataItemValid(Head(i_obj)) THEN <<>>
          ELSE <<"required parameter in InData">>)
             \o InDataErrors(Tail(i_obj))

MissingParams(data_params) ==
    SelectSeq(param_pool, LAMBDA param : ~Has(data_params, param))

RECURSIVE ParamErrors(_)
ParamErrors(missing) ==
    IF missing = <<>> THEN <<>>
    ELSE <<"required parameter: " \o Head(missing)>> \o ParamErrors(Tail(missing))

payload_json_check(data) ==
    IF ~Has(data, "params")
    THEN [valid |-> FALSE, log |-> <<"required params">>]
    ELSE LET data_params == data.params
             missing == MissingParams(data_params)
         IN  IF missing # <<>>
             THEN [valid |-> FALSE, log |-> ParamErrors(missing)]
             ELSE LET errors == InDataErrors(data_params.inData)
                  IN  [valid |-> errors = <<>>, log |-> errors]

(***************************************************************************)
(* __encrypt_workorder_indata: inData sorted by index, then the data of    *)
(* each item replaced according to its encryptedDataEncryptionKey.         *)
(* EncryptItems is the loop: [raised, items, calls], items being the list  *)
(* as the loop left it.                                                    *)
(***************************************************************************)
EncryptItem(item, s_key, s_iv, d_key, d_iv) ==
    LET e_key == item.encryptedDataEncryptionKey
        data  == item.data
    IN  IF e_key = "" \/ e_key = "null"
        THEN [item EXCEPT !.data =
                 byte_array_to_base64(encrypt_data(data, s_key, s_iv))]
        ELSE IF e_key = "-"
        THEN [item EXCEPT !.data = byte_array_to_base64(data)]
        ELSE [item EXCEPT !.data =
                 byte_array_to_base64(encrypt_data(data, d_key, d_iv))]

EncryptCalls(item) ==
    IF item.encryptedDataEncryptionKey = "-" THEN <<>> ELSE <<"encrypt">>

RECURSIVE EncryptItems(_, _, _, _, _)
EncryptItems(objs, s_key, s_iv, d_key, d_iv) ==
    IF objs = <<>> THEN [raised |-> FALSE, items |-> <<>>, calls |-> <<>>]
    ELSE LET item == Head(objs) IN
         IF ~Has(item, "data") \/ ~Has(item, "encryptedDataEncryptionKey")
         THEN [raised |-> TRUE, items |-> objs, calls |-> <<>>]
         ELSE LET rest == EncryptItems(Tail(objs), s_key, s_iv,
                                       d_key, d_iv)
              IN  [raised |-> rest.raised,
                   items |-> <<EncryptItem(item, s_key, s_iv,
                                           d_key, d_iv)>> \o rest.items,
                   calls |-> EncryptCalls(item) \o rest.calls]

\* [raised, params, calls]: the params as the call left them.
encrypt_workorder_indata(input_json_params, s_key, s_iv, d_key, d_iv) ==
    LET sorted == sort_by_index(input_json_params.inData)
        done == EncryptItems(sorted.val, s_key, s_iv, d_key, d_iv)
    IN  IF sorted.raised
        THEN [raised |-> TRUE, params |-> input_json_params, calls |-> <<>>]
        ELSE [raised |-> done.raised,
              params |-> [input_json_params EXCEPT !.inData = done.items],
              calls |-> done.calls]

(***************************************************************************)
(* __generate_signature: it stores the key pair in the object.             *)
(***************************************************************************)
generate_signature(hash, priv) ==
    [private_key |-> priv,
     public_key |-> GetPublicKey(priv),
     signature |-> byte_array_to_base64(SignMessage(priv, hash))]

(***************************************************************************)
(* generate_client_signature.  Its result is                               *)
(*   ret          "None", "signed" (the serialized request is returned) or *)
(*                the exception raised,                                    *)
(*   request      input_json as the call left it (the input when that was  *)
(*                never parsed),                                           *)
(*   log          the errors logged,                                       *)
(*   calls        the crypto primitives invoked,                           *)
(*   private_key, public_key   the object's key pair after the call.       *)
(***************************************************************************)
session_key == "sk"

session_iv == "siv"

encrypted_session_key == "esk"

data_key == "dkey"

data_iv == "div"

SignResult(ret, req, log, calls, priv, pub) ==
    [ret |-> ret, request |-> req, log |-> log, calls |-> calls,
     private_key |-> priv, public_key |-> pub]

\* Lines 222-264: the request is valid and the algorithms match.
SignValidRequest(input_json, priv, nonce, self_priv, self_pub) ==
    LET params_1 == With(input_json.params, "sessionKeyIv", hex_string(session_iv))
        encrypted == encrypt_workorder_indata(params_1, session_key, session_iv,
                                              data_key, data_iv)
        params_2 == encrypted.params
        request_nonce_hash == compute_message_hash(nonce)
        nonce_hash == byte_array_to_base64(request_nonce_hash)
        hash_string_1 == calculate_hash_on_concatenated_string(params_2, nonce_hash)
        hash_string_2 == calculate_datahash(params_2.inData)
        calls_2 == encrypted.calls \o <<"random", "hash">> \o hash_string_1.calls
                       \o hash_string_2.calls
        has_out == Has(params_2, "outData")
        sorted_out == sort_by_index(params_2.outData)
        params_3 == IF has_out /\ ~sorted_out.raised
                    THEN [params_2 EXCEPT !.outData = sorted_out.val]
                    ELSE params_2
        hash_string_3 == IF has_out THEN calculate_datahash(sorted_out.val)
                         ELSE Returned("", <<>>)
        calls_3 == calls_2 \o hash_string_3.calls
        final_hash == compute_message_hash(
                          hash_string_1.val \o hash_string_2.val \o hash_string_3.val)
        encrypted_request_hash == encrypt_data(final_hash, session_key, session_iv)
        signed == generate_signature(final_hash, priv)
        params_4 ==
            With(With(With(With(With(params_3,
                "encryptedRequestHash", hex_string(encrypted_request_hash)),
                "requesterSignature", signed.signature),
                "encryptedSessionKey", hex_string(encrypted_session_key)),
                "verifyingKey", signed.public_key),
                "requesterNonce", byte_array_to_base64(request_nonce_hash))
        Left(params) == [input_json EXCEPT !.params = params]
    IN  IF encrypted.raised
        THEN SignResult("KeyError", Left(params_2), <<>>, encrypted.calls,
                        self_priv, self_pub)
        ELSE IF hash_string_1.raised
        THEN SignResult(hash_string_1.val, Left(params_2), <<>>,
                        encrypted.calls \o <<"random", "hash">>, self_priv, self_pub)
        ELSE IF hash_string_2.raised
        THEN SignResult(hash_string_2.val, Left(params_2), <<>>, calls_2,
                        self_priv, self_pub)
        ELSE IF has_out /\ sorted_out.raised
        THEN SignResult(sorted_out.val, Left(params_2), <<>>, calls_2,
                        self_priv, self_pub)
        ELSE IF hash_string_3.raised
        THEN SignResult(hash_string_3.val, Left(params_3), <<>>, calls_3,
                        self_priv, self_pub)
        ELSE SignResult("signed", Left(params_4), <<>>,
                        calls_3 \o <<"hash", "encrypt", "sign">>,
                        signed.private_key, signed.public_key)

\* Mutant: the algorithms are compared before the payload is validated.
generate_client_signature_algorithms_first(input_json, w, priv, nonce, self_priv, self_pub) ==
    LET checked == payload_json_check(input_json)
        None(log) == SignResult("None", input_json, log, <<>>, self_priv, self_pub)
    IN  IF tcs_worker.HashingAlgorithm # w.hashing_algorithm
        THEN None(<<"Hashing algorithm is not supported">>)
        ELSE IF tcs_worker.SigningAlgorithm # w.signing_algorithm
        THEN None(<<"Signing algorithm is not supported">>)
        ELSE IF checked.valid = FALSE
        THEN None(checked.log \o <<"Signing the request failed">>)
        ELSE SignValidRequest(input_json, priv, nonce, self_priv, self_pub)

generate_client_signature(input_json, w, priv, nonce, self_priv, self_pub) ==
    LET checked == payload_json_check(input_json)
        None(log) == SignResult("None", input_json, log, <<>>, self_priv, self_pub)
    IN  IF checked.valid = FALSE
        THEN None(checked.log \o <<"Signing the request failed">>)
        ELSE IF tcs_worker.HashingAlgorithm # w.hashing_algorithm
        THEN None(<<"Hashing algorithm is not supported">>)
        ELSE IF tcs_worker.SigningAlgorithm # w.signing_algorithm
        THEN None(<<"Signing algorithm is not supported">>)
        ELSE SignValidRequest(input_json, priv, nonce, self_priv, self_pub)

SignatureStatus ==
    {"ERROR_RESPONSE", "INVALID_VERIFICATION_KEY", "PASSED", "FAILED",
     "INVALID_SIGNATURE_FORMAT"}

(***************************************************************************)
(* Inputs of verify_signature: worker descriptors and responses.           *)
(***************************************************************************)
Workers ==
    [hashing_algorithm : {"SHA-256", "KECCAK-256"},
     signing_algorithm : {"SECP256K1", "RSA-OAEP-3072"},
     worker_encryption_key : {"wek"},
     worker_typedata_verification_key :
         {GetPublicKey(k) : k \in PrivateKeys} \cup {"not a key"}]

DataValues == {"x", "xy"}

OutItem(i, d) ==
    [index |-> i, dataHash |-> "dh", data |-> d,
     encryptedDataEncryptionKey |-> "ek", iv |-> "v"]

GoodItems == {OutItem(i, d) : i \in 1..MaxIndex, d \in DataValues}

GoodLists == UNION {[1..n -> GoodItems] : n \in 0..MaxItems}

ItemFields == {"index", "dataHash", "data", "encryptedDataEncryptionKey", "iv"}

\* Lists with an item that lacks one field.
DefectLists ==
    {<<Drop(OutItem(1, "x"), f)>> : f \in ItemFields}
        \cup {<<OutItem(2, "x"), Drop(OutItem(1, "xy"), "iv")>>}

ResultHeaders ==
    LET h == [workOrderId |-> "wo", workerId |-> "wk", requesterId |-> "rq",
              workerNonce |-> "n1"]
    IN  {h, With(h, "workloadId", "wl")}

\* The digest a worker signs (section 4.3 of the specification): the hash of
\* header hash and item hash, over outData in index order, items of equal
\* index in their order of arrival.
ItemsWithIndex(objs, i) == SelectSeq(objs, LAMBDA o : o.index = i)

RECURSIVE InIndexOrder(_, _)
InIndexOrder(objs, i) ==
    IF i > MaxIndex THEN <<>>
    ELSE ItemsWithIndex(objs, i) \o InIndexOrder(objs, i + 1)

ItemDigest(o) ==
    byte_array_to_base64(compute_message_hash(
        (IF Has(o, "dataHash") THEN o.dataHash ELSE "") \o o.data
            \o o.encryptedDataEncryptionKey \o o.iv))

RECURSIVE ItemDigests(_)
ItemDigests(objs) ==
    IF objs = <<>> THEN "" ELSE ItemDigest(Head(objs)) \o ItemDigests(Tail(objs))

WorkerDigestDefined(r) ==
    /\ {"workerNonce", "workOrderId", "workerId", "requesterId", "outData"}
           \subseteq DOMAIN r
    /\ \A i \in 1..Len(r.outData) :
           {"index", "data", "encryptedDataEncryptionKey", "iv"}
               \subseteq DOMAIN r.outData[i]

WorkerDigest(r) ==
    compute_message_hash(
        byte_array_to_base64(compute_message_hash(
            r.workerNonce \o r.workOrderId \o r.workerId
                \o (IF Has(r, "workloadId") THEN r.workloadId ELSE "")
                \o r.requesterId))
        \o ItemDigests(InIndexOrder(r.outData, 1)))

WorkerSignature(r, priv) ==
    byte_array_to_base64(SignMessage(priv, WorkerDigest(r)))

\* The workerSignature strings a response with result r may carry.
Signatures(r) ==
    (IF WorkerDigestDefined(r)
     THEN {WorkerSignature(r, k) : k \in PrivateKeys} ELSE {})
        \cup {byte_array_to_base64(SignMessage("k1", compute_message_hash("other"))),
              byte_array_to_base64("junk"),
              "!!"}

SignedResults(lists) ==
    UNION {{With(With(h, "outData", objs), "workerSignature", s) :
               s \in Signatures(With(h, "outData", objs))} :
           h \in ResultHeaders, objs \in lists}

ResultFields ==
    {"workerNonce", "workerSignature", "outData", "workOrderId", "workerId",
     "requesterId"}

Envelope == [jsonrpc |-> "2.0"]

\* Results of every list, as they are; results of the short and the
\* defective lists also with an error, a code, or a field missing.
ShortLists == {objs \in GoodLists : Len(objs) <= 1}

Responses ==
    {With(Envelope, "result", r) :
        r \in SignedResults(GoodLists \cup DefectLists)}
        \cup UNION {{With(With(Envelope, "result", r), "error", "e")}
                    \cup {With(Envelope, "result", With(r, "code", c)) :
                             c \in {-1, 0}}
                    \cup {With(Envelope, "result", Drop(r, f)) :
                             f \in ResultFields} :
                    r \in SignedResults(ShortLists \cup DefectLists)}
        \cup {Envelope, With(Envelope, "error", "e")}

(***************************************************************************)
(* Values of the variables an operation does not use.                      *)
(***************************************************************************)
NoSignOut ==
    [ret |-> "none", request |-> Envelope, log |-> <<>>, calls |-> <<>>]

NoHashOut == [original |-> "none", permuted |-> "none"]

VerifyIdle ==
    /\ response = Envelope
    /\ status = "none"
    /\ crypto_calls = <<>>
    /\ passed_before = FALSE

TaskIds == {1, 2}

\* A call that has not been made.
NoTask ==
    [pc |-> "idle", request |-> Envelope, private_key |-> "None",
     nonce |-> "None", params |-> Envelope, final_hash |-> "None",
     ret |-> "none"]

NoTasks == [t \in TaskIds |-> NoTask]

SignIdle ==
    /\ request = Envelope
    /\ private_key = "k1"
    /\ sign_out = NoSignOut
    /\ check_out = "none"
    /\ self_private_key = "None"
    /\ self_public_key = "None"
    /\ tasks = NoTasks

NoHeaderOut == <<"none", "none">>

ItemHashIdle ==
    /\ data_objects = <<>>
    /\ permuted_objects = <<>>
    /\ hash_out = NoHashOut

HeaderIdle ==
    /\ header_params = <<Envelope, Envelope>>
    /\ header_nonce = "None"
    /\ header_out = NoHeaderOut

HashIdle == ItemHashIdle /\ HeaderIdle

verifyVars == <<response, status, crypto_calls, passed_before>>

signVars ==
    <<request, private_key, sign_out, check_out, self_private_key,
      self_public_key, tasks>>

itemHashVars == <<data_objects, permuted_objects, hash_out>>

headerVars == <<header_params, header_nonce, header_out>>

hashVars == <<itemHashVars, headerVars>>

(***************************************************************************)
(* Verification: a response arrives, verify_signature is called on it; a   *)
(* response that passed may be altered in one item's data and verified     *)
(* again.                                                                  *)
(***************************************************************************)
InitVerify ==
    /\ response \in Responses
    /\ worker \in Workers
    /\ status = "none"
    /\ crypto_calls = <<>>
    /\ passed_before = FALSE
    /\ SignIdle
    /\ HashIdle

VerifySignatureCall ==
    /\ status = "none"
    /\ \E base64_decodes \in BOOLEAN :
          LET r == verify_signature(response, worker, base64_decodes)
          IN  /\ status' = r.val
              /\ crypto_calls' = r.calls
    /\ UNCHANGED <<response, worker, passed_before, signVars, hashVars>>

TamperValues == DataValues \cup {""}

TamperOutData ==
    /\ status = "PASSED"
    /\ ~passed_before
    /\ \E i \in 1..Len(response.result.outData), d \in TamperValues :
          /\ d # response.result.outData[i].data
          /\ response' = [response EXCEPT !.result.outData[i].data = d]
    /\ status' = "none"
    /\ crypto_calls' = <<>>
    /\ passed_before' = TRUE
    /\ UNCHANGED <<worker, signVars, hashVars>>

NextVerify == VerifySignatureCall \/ TamperOutData

SpecVerify == InitVerify /\ [][NextVerify]_vars

(***************************************************************************)
(* Claims about verify_signature, checked under SpecVerify.                *)
(***************************************************************************)
Verified == status # "none"

AlgorithmsMatch ==
    /\ worker.hashing_algorithm = tcs_worker.HashingAlgorithm
    /\ worker.signing_algorithm = tcs_worker.SigningAlgorithm

IsErrorResponse ==
    \/ Has(response, "error")
    \/ /\ Has(response, "result")
       /\ Has(response.result, "code")
       /\ response.result.code < 0

\* The response carries the honest worker's signature for the descriptor's key.
HonestlySigned ==
    /\ Has(response, "result")
    /\ WorkerDigestDefined(response.result)
    /\ Has(response.result, "workerSignature")
    /\ \E k \in PrivateKeys :
          /\ worker.worker_typedata_verification_key = GetPublicKey(k)
          /\ response.result.workerSignature = WorkerSignature(response.result, k)

\* C1: a response without error and without negative code, from a worker
\* whose algorithms are the local ones, signed with the private key of the
\* descriptor's verification key over hash(header_hash(workerNonce as it is,
\* ids) || item_hash(outData sorted by index)), verifies as PASSED.
C1_RoundTrip ==
    (Verified /\ ~IsErrorResponse /\ AlgorithmsMatch /\ HonestlySigned)
        => status = "PASSED"

\* C1 witness: a response whose outData arrives out of index order passed.
C1_Witness ==
    /\ status = "PASSED"
    /\ ~passed_before
    /\ Len(response.result.outData) = 2
    /\ response.result.outData[1].index > response.result.outData[2].index

\* C2: after the data of one outData item of a response that PASSED is
\* changed, with everything else as it was, verify_signature returns FAILED.
C2_TamperDetected ==
    (Verified /\ passed_before) => status = "FAILED"

\* C2 witness: an altered response has been verified.
C2_Witness ==
    /\ passed_before
    /\ status = "FAILED"
    /\ Len(response.result.outData) = 2

\* C3: every call of verify_signature ends by returning one of the five
\* SignatureStatus values.
C3_VerifierTotal == Verified => status \in SignatureStatus

\* C4: a response with an error field, or with a negative result.code,
\* yields ERROR_RESPONSE whatever else it carries.
C4_ErrorPropagation ==
    (Verified /\ IsErrorResponse) => status = "ERROR_RESPONSE"

\* C4 witness: an honestly signed result with a negative code, from a worker
\* with the local algorithms, was answered ERROR_RESPONSE.
C4_Witness ==
    /\ status = "ERROR_RESPONSE"
    /\ AlgorithmsMatch
    /\ ~Has(response, "error")
    /\ IsErrorResponse
    /\ HonestlySigned

KeyUnparseable ==
    ~SIG_PublicKey_parses(worker.worker_typedata_verification_key)

\* The call gets as far as constructing the verification key: the algorithms
\* match, the response is no error response, and every field read before
\* the key is there.
ReachesKeyConstruction ==
    /\ AlgorithmsMatch
    /\ ~IsErrorResponse
    /\ Has(response, "result")
    /\ WorkerDigestDefined(response.result)
    /\ Has(response.result, "workerSignature")

\* C5 as claimed: with an unparseable verification key, what
\* verify_signature returns is INVALID_VERIFICATION_KEY for every response.
C5_BadKeyAlways ==
    (Verified /\ KeyUnparseable /\ status \in SignatureStatus)
        => status = "INVALID_VERIFICATION_KEY"

\* C5 as amended: with an unparseable verification key verify_signature
\* never returns FAILED, PASSED or INVALID_SIGNATURE_FORMAT, whatever the
\* response and its workerSignature; it returns INVALID_VERIFICATION_KEY when
\* the call gets as far as constructing the key, and ERROR_RESPONSE when the
\* algorithms differ or the response is an error response with its result.
C5_BadKey ==
    (Verified /\ KeyUnparseable) =>
        /\ status \notin {"FAILED", "PASSED", "INVALID_SIGNATURE_FORMAT"}
        /\ ReachesKeyConstruction => status = "INVALID_VERIFICATION_KEY"
        /\ (~AlgorithmsMatch \/ IsErrorResponse) => status = "ERROR_RESPONSE"

\* C5 witness: a response with a signature string that is not base64 was
\* answered INVALID_VERIFICATION_KEY.
C5_Witness ==
    /\ status = "INVALID_VERIFICATION_KEY"
    /\ KeyUnparseable
    /\ ~IsBase64(response.result.workerSignature)

\* C6: when the descriptor's hashing or signing algorithm differs from the
\* local one, verify_signature returns ERROR_RESPONSE and has computed no
\* digest and checked no signature.
C6_AlgorithmMismatch ==
    (Verified /\ ~AlgorithmsMatch) =>
        status = "ERROR_RESPONSE" /\ crypto_calls = <<>>

\* C6 witness: only the signing algorithm differs, and the response is
\* honestly signed.
C6_Witness ==
    /\ status = "ERROR_RESPONSE"
    /\ worker.hashing_algorithm = tcs_worker.HashingAlgorithm
    /\ worker.signing_algorithm # tcs_worker.SigningAlgorithm
    /\ ~IsErrorResponse
    /\ HonestlySigned

(***************************************************************************)
(* Inputs of generate_client_signature: requests, descriptors, keys.       *)
(***************************************************************************)
InItem(i, e) ==
    [index |-> i, dataHash |-> "dh", data |-> "x",
     encryptedDataEncryptionKey |-> e, iv |-> "v"]

InItems == {InItem(i, e) : i \in 1..MaxIndex, e \in {"", "-", "dk"}}

InLists == UNION {[1..n -> InItems] : n \in 0..MaxItems}

\* Lists with "null" as key, or with an item that lacks a field or has
\* empty data.
SpecialInLists ==
    {<<InItem(1, "null")>>,
     <<InItem(2, "-"), Drop(InItem(1, "dk"), "encryptedDataEncryptionKey")>>,
     <<InItem(2, "dk"), [InItem(1, "") EXCEPT !.data = ""]>>}
        \cup {<<Drop(InItem(1, ""), f)>> : f \in ItemFields}

OutDataOptions ==
    {<<OutItem(2, "x"), OutItem(1, "xy")>>,
     <<Drop(OutItem(1, "x"), "index")>>,
     <<Drop(OutItem(1, "x"), "iv")>>}

ParamHeaders ==
    LET h == [requesterNonce |-> "rn", workOrderId |-> "wo", workerId |-> "wk",
              requesterId |-> "rq"]
    IN  {h, With(h, "workloadId", "wl")}

ParamsOver(lists) ==
    UNION {{With(h, "inData", objs)}
               \cup {With(With(h, "inData", objs), "outData", out) :
                        out \in OutDataOptions} :
           h \in ParamHeaders, objs \in lists}

Requests ==
    {With(Envelope, "params", ps) : ps \in ParamsOver(InLists \cup SpecialInLists)}
        \cup UNION {{With(Envelope, "params", Drop(ps, f)) :
                        f \in {param_pool[i] : i \in 1..Len(param_pool)}}
                    \cup {With(Envelope, "params",
                               Drop(Drop(ps, "requesterNonce"), "workerId"))} :
                    ps \in ParamsOver({objs \in InLists : Len(objs) <= 1}
                                         \cup SpecialInLists)}
        \cup {Envelope}

SignWorkers ==
    {w \in Workers : w.worker_typedata_verification_key = GetPublicKey("k1")}

\* crypto.random_bit_string(NO_OF_BYTES)
Nonces == {"r1", "r2"}

(***************************************************************************)
(* Signing: a request is handed to generate_client_signature, which first  *)
(* checks it with __payload_json_check.                                    *)
(***************************************************************************)
InitSign ==
    /\ request \in Requests
    /\ worker \in SignWorkers
    /\ private_key \in PrivateKeys
    /\ sign_out = NoSignOut
    /\ check_out = "none"
    /\ self_private_key = "None"
    /\ self_public_key = "None"
    /\ tasks = NoTasks
    /\ VerifyIdle
    /\ HashIdle

GenerateClientSignatureCall ==
    /\ sign_out.ret = "none"
    /\ \E nonce \in Nonces :
          LET r == generate_client_signature(request, worker, private_key, nonce,
                                             self_private_key, self_public_key)
          IN  /\ sign_out' = [ret |-> r.ret, request |-> r.request,
                              log |-> r.log, calls |-> r.calls]
              /\ check_out' = IF payload_json_check(request).valid
                              THEN "True" ELSE "False"
              /\ self_private_key' = r.private_key
              /\ self_public_key' = r.public_key
    /\ UNCHANGED <<request, worker, private_key, tasks, verifyVars, hashVars>>

NextSign == GenerateClientSignatureCall

SpecSign == InitSign /\ [][NextSign]_vars

(***************************************************************************)
(* Claims about signing, checked under SpecSign.                           *)
(***************************************************************************)
MandatoryParams ==
    {"requesterNonce", "workOrderId", "workerId", "requesterId", "inData"}

\* What the payload check is to accept.
RequestValid ==
    /\ Has(request, "params")
    /\ MandatoryParams \subseteq DOMAIN request.params
    /\ \A i \in 1..Len(request.params.inData) :
          LET obj == request.params.inData[i]
          IN  Has(obj, "data") /\ obj.data # "" /\ Has(obj, "index")

Signed == sign_out.ret # "none"

\* The data the encryptor is to leave in an item.
PolicyData(item) ==
    IF ~Has(item, "encryptedDataEncryptionKey")
          \/ item.encryptedDataEncryptionKey \in {"", "null"}
    THEN byte_array_to_base64(encrypt_data(item.data, session_key, session_iv))
    ELSE IF item.encryptedDataEncryptionKey = "-"
    THEN byte_array_to_base64(item.data)
    ELSE byte_array_to_base64(encrypt_data(item.data, data_key, data_iv))

\* Nothing but the encryption policy can stop the call: the request is
\* valid, the algorithms match, every inData item has an iv and outData, if
\* there, has every hashed field.
OnlyPolicyDecides ==
    /\ RequestValid
    /\ AlgorithmsMatch
    /\ \A i \in 1..Len(request.params.inData) : Has(request.params.inData[i], "iv")
    /\ Has(request.params, "outData") =>
          \A i \in 1..Len(request.params.outData) :
              {"index", "data", "encryptedDataEncryptionKey", "iv"}
                  \subseteq DOMAIN request.params.outData[i]

\* C7: for every inData item the call completes and leaves in data
\* base64(encrypt(data, session_key, session_iv)) when the item's
\* encryptedDataEncryptionKey is absent, "" or "null", base64(data) when it
\* is "-", and base64(encrypt(data, data_key, data_iv)) otherwise.
C7_EncryptionPolicy ==
    (Signed /\ OnlyPolicyDecides) =>
        /\ sign_out.ret = "signed"
        /\ LET before == InIndexOrder(request.params.inData, 1)
               after == sign_out.request.params.inData
           IN  /\ Len(after) = Len(before)
               /\ \A i \in 1..Len(before) : after[i].data = PolicyData(before[i])

\* C8: the payload check returns true exactly when the five mandatory
\* parameters are in params and every inData item has non-empty data and an
\* index, and false in every other case.
C8_ValidationComplete ==
    check_out # "none" =>
        /\ check_out \in {"True", "False"}
        /\ check_out = "True" <=> RequestValid

\* C8 witness: a payload that lacks two mandatory parameters was refused.
C8_Witness ==
    /\ check_out = "False"
    /\ Has(request, "params")
    /\ Cardinality(MandatoryParams \ DOMAIN request.params) = 2

\* C9: generate_client_signature returns None when the payload is not valid
\* or an algorithm differs; the payload is checked before the algorithms;
\* and then nothing else has run: the request is as it was, no crypto
\* primitive was invoked, the object holds no key.
C9_SigningAborts ==
    (Signed /\ (~RequestValid \/ ~AlgorithmsMatch)) =>
        /\ sign_out.ret = "None"
        /\ sign_out.request = request
        /\ sign_out.calls = <<>>
        /\ self_private_key = "None" /\ self_public_key = "None"
        /\ ~RequestValid =>
              sign_out.log[Len(sign_out.log)] = "Signing the request failed"

\* C9 witness: a call with an invalid payload and a differing algorithm
\* returned None.
C9_Witness ==
    /\ sign_out.ret = "None"
    /\ ~RequestValid
    /\ ~AlgorithmsMatch

\* The part of C7 the code meets: when the key is there.
C7_PolicyWhenKeyPresent ==
    (/\ Signed
     /\ OnlyPolicyDecides
     /\ \A i \in 1..Len(request.params.inData) :
           Has(request.params.inData[i], "encryptedDataEncryptionKey"))
        => /\ sign_out.ret = "signed"
           /\ LET before == InIndexOrder(request.params.inData, 1)
                  after == sign_out.request.params.inData
              IN  /\ Len(after) = Len(before)
                  /\ \A i \in 1..Len(before) : after[i].data = PolicyData(before[i])

\* The digest of a request, from the fields of the request alone: the hash
\* of header hash, inData item hash and outData item hash (empty when there
\* is no outData), the arrays in the order they have in the request.
RequestDigest(params) ==
    compute_message_hash(
        byte_array_to_base64(compute_message_hash(
            params.requesterNonce \o params.workOrderId \o params.workerId
                \o (IF Has(params, "workloadId") THEN params.workloadId ELSE "")
                \o params.requesterId))
        \o ItemDigests(params.inData)
        \o (IF Has(params, "outData") THEN ItemDigests(params.outData) ELSE ""))

SortedByIndex(objs) ==
    \A i, j \in 1..Len(objs) : i < j => objs[i].index <= objs[j].index

\* C12: in every request generate_client_signature returns,
\* requesterSignature is the signature over D and encryptedRequestHash the
\* encryption of D under session_key/session_iv, D being the digest of the
\* returned request's own fields; the returned inData is in index order with
\* the data the encryptor left, the returned outData is in index order, and
\* the returned requesterNonce is the base64 digest of the nonce.
C12_SelfConsistent ==
    sign_out.ret = "signed" =>
        LET params == sign_out.request.params
            D == RequestDigest(params)
            arrived == InIndexOrder(request.params.inData, 1)
        IN  /\ params.requesterSignature
                  = byte_array_to_base64(SignMessage(private_key, D))
            /\ params.encryptedRequestHash
                  = hex_string(encrypt_data(D, session_key, session_iv))
            /\ SortedByIndex(params.inData)
            /\ Len(params.inData) = Len(request.params.inData)
            /\ \A i \in 1..Len(params.inData) :
                  /\ params.inData[i].data = PolicyData(arrived[i])
                  /\ Drop(params.inData[i], "data") = Drop(arrived[i], "data")
            /\ Has(params, "outData") =>
                  /\ SortedByIndex(params.outData)
                  /\ params.outData = InIndexOrder(request.params.outData, 1)
            /\ params.requesterNonce
                  \in {byte_array_to_base64(compute_message_hash(n)) : n \in Nonces}

\* A signed request with a workloadId whose inData and outData both arrived
\* out of index order.
C12_Witness ==
    /\ sign_out.ret = "signed"
    /\ Has(sign_out.request.params, "workloadId")
    /\ Len(request.params.inData) = 2
    /\ request.params.inData[1].index > request.params.inData[2].index
    /\ Has(request.params, "outData")
    /\ Len(request.params.outData) = 2
    /\ request.params.outData[1].index > request.params.outData[2].index
    /\ sign_out.request.params.requesterNonce # request.params.requesterNonce

(***************************************************************************)
(* Item hash: the same data items arrive in two orders; each list is       *)
(* sorted by index and hashed.                                             *)
(***************************************************************************)
HashItems == GoodItems \cup {Drop(o, "dataHash") : o \in GoodItems}

HashLists == UNION {[1..n -> HashItems] : n \in 0..MaxItems}

ArrivalOrders(n) == {p \in [1..n -> 1..n] : \A i, j \in 1..n : p[i] = p[j] => i = j}

InitHash ==
    /\ data_objects \in HashLists
    /\ \E p \in ArrivalOrders(Len(data_objects)) :
          permuted_objects = [i \in 1..Len(data_objects) |-> data_objects[p[i]]]
    /\ hash_out = NoHashOut
    /\ worker \in {w \in SignWorkers : w.hashing_algorithm = tcs_worker.HashingAlgorithm}
    /\ HeaderIdle
    /\ VerifyIdle
    /\ SignIdle

ComputeItemHash ==
    /\ hash_out = NoHashOut
    /\ hash_out' = [original |-> sorted_datahash(data_objects).val,
                    permuted |-> sorted_datahash(permuted_objects).val]
    /\ UNCHANGED <<data_objects, permuted_objects, headerVars, worker, verifyVars,
                   signVars>>

NextHash == ComputeItemHash

SpecHash == InitHash /\ [][NextHash]_vars

(***************************************************************************)
(* Claims about the item hash, checked under SpecHash.                     *)
(***************************************************************************)
Hashed == hash_out # NoHashOut

HashedFields(o) == [f \in DOMAIN o \ {"index"} |-> o[f]]

\* Items of the same index are hashed alike.
EqualIndexAlike ==
    \A i, j \in 1..Len(data_objects) :
        data_objects[i].index = data_objects[j].index
            => HashedFields(data_objects[i]) = HashedFields(data_objects[j])

\* C10 as claimed: for every list and every permutation of it, sorting by
\* index and hashing gives the same string.
C10_OrderIndependent == Hashed => hash_out.original = hash_out.permuted

\* C10 as amended: the same, for lists in which items of equal index have
\* the same dataHash, data, encryptedDataEncryptionKey and iv (so for every
\* list whose index values are pairwise distinct).
C10_OrderIndependentDistinct ==
    (Hashed /\ EqualIndexAlike) => hash_out.original = hash_out.permuted

\* C10 witness: two different items arrived in both orders and were hashed.
C10_Witness ==
    /\ Hashed
    /\ EqualIndexAlike
    /\ Len(data_objects) = 2
    /\ data_objects[1].index > data_objects[2].index
    /\ permuted_objects # data_objects

(***************************************************************************)
(* Header hash: __calculate_hash_on_concatenated_string is applied to two  *)
(* payloads with the same nonce digest.                                    *)
(***************************************************************************)
IdValues == {"a", "ab", "b", "bc", "c"}

WorkloadValues == {"", "c", "wl"}

HeaderParams ==
    LET with_ids == {[workOrderId |-> wo, workerId |-> wk, requesterId |-> rq] :
                        wo \in IdValues, wk \in IdValues, rq \in {"c", "rq"}}
    IN  with_ids \cup {With(h, "workloadId", wl) :
                          h \in {x \in with_ids : x.requesterId = "rq"},
                          wl \in WorkloadValues}

NonceDigests == {byte_array_to_base64(compute_message_hash(n)) : n \in Nonces}

InitHeader ==
    /\ header_params \in HeaderParams \X HeaderParams
    /\ header_nonce \in NonceDigests
    /\ header_out = NoHeaderOut
    /\ worker \in {w \in SignWorkers : w.hashing_algorithm = tcs_worker.HashingAlgorithm}
    /\ ItemHashIdle
    /\ VerifyIdle
    /\ SignIdle

ComputeHeaderHash ==
    /\ header_out = NoHeaderOut
    /\ header_out' =
          [i \in 1..2 |->
              calculate_hash_on_concatenated_string(header_params[i],
                                                    header_nonce).val]
    /\ UNCHANGED <<header_params, header_nonce, itemHashVars, worker, verifyVars,
                   signVars>>

NextHeader == ComputeHeaderHash

SpecHeader == InitHeader /\ [][NextHeader]_vars

(***************************************************************************)
(* Claims about the header hash, checked under SpecHeader.                 *)
(***************************************************************************)
HeaderHashed == header_out # NoHeaderOut

\* The fields of a payload that enter the header hash, an absent workloadId
\* counted as the empty string.
HeaderFields(params) ==
    <<params.workOrderId, params.workerId,
      IF Has(params, "workloadId") THEN params.workloadId ELSE "",
      params.requesterId>>

\* C13: for one nonce digest, two payloads that differ in workOrderId,
\* workerId, workloadId (absent counted as "") or requesterId have different
\* header hashes.
C13_HeaderUnambiguous ==
    (HeaderHashed /\ HeaderFields(header_params[1]) # HeaderFields(header_params[2]))
        => header_out[1] # header_out[2]

\* Payloads whose fields pairwise have the same lengths have different
\* header hashes when the fields differ.
SameLengths(f, g) == \A i \in 1..4 : Len(f[i]) = Len(g[i])

HeaderUnambiguousAtEqualLengths ==
    (/\ HeaderHashed
     /\ HeaderFields(header_params[1]) # HeaderFields(header_params[2])
     /\ SameLengths(HeaderFields(header_params[1]), HeaderFields(header_params[2])))
        => header_out[1] # header_out[2]

\* The header hash does not tell an absent workloadId from an empty one.
AbsentWorkloadIsEmpty ==
    (HeaderHashed /\ HeaderFields(header_params[1]) = HeaderFields(header_params[2]))
        => header_out[1] = header_out[2]

(***************************************************************************)
(* Concurrent signing: two threads call generate_client_signature on the   *)
(* same ClientSignature object, each with its own request, private key and *)
(* nonce.  A thread's locals are its task; self.private_key and            *)
(* self.public_key belong to the object.  A thread can be preempted        *)
(* between any two statements; the statements before line 181 touch only   *)
(* locals and are one step.                                                *)
(***************************************************************************)
\* Lines 222-254 of a call whose guards passed: [ret, params, final_hash],
\* ret "ok" or the exception raised, params with encryptedRequestHash set.
SigningDigest(input_json, nonce) ==
    LET params_1 == With(input_json.params, "sessionKeyIv", hex_string(session_iv))
        encrypted == encrypt_workorder_indata(params_1, session_key, session_iv,
                                              data_key, data_iv)
        params_2 == encrypted.params
        nonce_hash == byte_array_to_base64(compute_message_hash(nonce))
        hash_string_1 == calculate_hash_on_concatenated_string(params_2, nonce_hash)
        hash_string_2 == calculate_datahash(params_2.inData)
        has_out == Has(params_2, "outData")
        sorted_out == sort_by_index(params_2.outData)
        params_3 == IF has_out /\ ~sorted_out.raised
                    THEN [params_2 EXCEPT !.outData = sorted_out.val]
                    ELSE params_2
        hash_string_3 == IF has_out THEN calculate_datahash(sorted_out.val)
                         ELSE Returned("", <<>>)
        final_hash == compute_message_hash(
                          hash_string_1.val \o hash_string_2.val \o hash_string_3.val)
        Failed(e, params) == [ret |-> e, params |-> params, final_hash |-> "None"]
    IN  IF encrypted.raised THEN Failed("KeyError", params_2)
        ELSE IF hash_string_1.raised THEN Failed(hash_string_1.val, params_2)
        ELSE IF hash_string_2.raised THEN Failed(hash_string_2.val, params_2)
        ELSE IF has_out /\ sorted_out.raised THEN Failed(sorted_out.val, params_2)
        ELSE IF hash_string_3.raised THEN Failed(hash_string_3.val, params_3)
        ELSE [ret |-> "ok",
              params |-> With(params_3, "encryptedRequestHash",
                              hex_string(encrypt_data(final_hash, session_key,
                                                      session_iv))),
              final_hash |-> final_hash]

ConcurrentRequests ==
    {With(Envelope, "params", With(h, "inData", objs)) :
        h \in ParamHeaders,
        objs \in {<<InItem(1, "")>>, <<InItem(2, "-"), InItem(1, "dk")>>,
                  <<Drop(InItem(1, ""), "iv")>>}}
        \cup {Envelope}

OwnKey(t) == IF t = 1 THEN "k1" ELSE "k2"

InitConcurrent ==
    /\ \E reqs \in [TaskIds -> ConcurrentRequests] :
          tasks = [t \in TaskIds |->
                      [NoTask EXCEPT !.pc = "call", !.request = reqs[t],
                                     !.private_key = OwnKey(t)]]
    /\ worker \in SignWorkers
    /\ self_private_key = "None"
    /\ self_public_key = "None"
    /\ request = Envelope
    /\ private_key = "k1"
    /\ sign_out = NoSignOut
    /\ check_out = "none"
    /\ VerifyIdle
    /\ HashIdle

taskFrame == <<request, private_key, sign_out, check_out, worker, verifyVars, hashVars>>

\* Lines 210-254: the guards, then everything up to encryptedRequestHash.
TaskPrepare(t) ==
    /\ tasks[t].pc = "call"
    /\ \E nonce \in Nonces :
          LET me == tasks[t]
              aborted ==
                  \/ payload_json_check(me.request).valid = FALSE
                  \/ tcs_worker.HashingAlgorithm # worker.hashing_algorithm
                  \/ tcs_worker.SigningAlgorithm # worker.signing_algorithm
              d == SigningDigest(me.request, nonce)
          IN  tasks' = [tasks EXCEPT ![t] =
                  IF aborted THEN [me EXCEPT !.pc = "done", !.ret = "None"]
                  ELSE IF d.ret # "ok"
                  THEN [me EXCEPT !.pc = "done", !.ret = d.ret, !.nonce = nonce,
                                  !.params = d.params]
                  ELSE [me EXCEPT !.pc = "l181", !.nonce = nonce,
                                  !.params = d.params, !.final_hash = d.final_hash]]
    /\ UNCHANGED <<self_private_key, self_public_key, taskFrame>>

\* Line 181: self.private_key = private_key
TaskSetPrivateKey(t) ==
    /\ tasks[t].pc = "l181"
    /\ self_private_key' = tasks[t].private_key
    /\ tasks' = [tasks EXCEPT ![t].pc = "l182"]
    /\ UNCHANGED <<self_public_key, taskFrame>>

\* Line 182: self.public_key = self.private_key.GetPublicKey().Serialize()
TaskSetPublicKey(t) ==
    /\ tasks[t].pc = "l182"
    /\ self_public_key' = GetPublicKey(self_private_key)
    /\ tasks' = [tasks EXCEPT ![t].pc = "l183"]
    /\ UNCHANGED <<self_private_key, taskFrame>>

\* Lines 183-185, 255: requesterSignature = base64(self.private_key.SignMessage(hash))
TaskSignMessage(t) ==
    /\ tasks[t].pc = "l183"
    /\ tasks' = [tasks EXCEPT ![t] =
          [@ EXCEPT !.pc = "l256",
                    !.params = With(@, "requesterSignature",
                        byte_array_to_base64(
                            SignMessage(self_private_key, tasks[t].final_hash)))]]
    /\ UNCHANGED <<self_private_key, self_public_key, taskFrame>>

\* Lines 256-264: encryptedSessionKey, verifyingKey = self.public_key,
\* requesterNonce, and the request is returned.
TaskReturn(t) ==
    /\ tasks[t].pc = "l256"
    /\ tasks' = [tasks EXCEPT ![t] =
          [@ EXCEPT !.pc = "done", !.ret = "signed",
                    !.params =
                        With(With(With(@,
                            "encryptedSessionKey", hex_string(encrypted_session_key)),
                            "verifyingKey", self_public_key),
                            "requesterNonce",
                            byte_array_to_base64(compute_message_hash(tasks[t].nonce)))]]
    /\ UNCHANGED <<self_private_key, self_public_key, taskFrame>>

NextConcurrent ==
    \E t \in TaskIds :
        \/ TaskPrepare(t)
        \/ TaskSetPrivateKey(t)
        \/ TaskSetPublicKey(t)
        \/ TaskSignMessage(t)
        \/ TaskReturn(t)

SpecConcurrent == InitConcurrent /\ [][NextConcurrent]_vars

(***************************************************************************)
(* Claims about concurrent signing, checked under SpecConcurrent.          *)
(***************************************************************************)
Returned_signed(t) == tasks[t].pc = "done" /\ tasks[t].ret = "signed"

\* The private key whose signature over the call's digest is in the request.
SignedBy(t, k) ==
    tasks[t].params.requesterSignature
        = byte_array_to_base64(SignMessage(k, tasks[t].final_hash))

\* C11: in every request a concurrent call returns, verifyingKey is the
\* public key of the private key that made that request's
\* requesterSignature, and both come from the call's own private key.
C11_ConcurrentSigningSafe ==
    \A t \in TaskIds :
        Returned_signed(t) =>
            /\ \A k \in PrivateKeys :
                  SignedBy(t, k) => tasks[t].params.verifyingKey = GetPublicKey(k)
            /\ SignedBy(t, tasks[t].private_key)
            /\ tasks[t].params.verifyingKey = GetPublicKey(tasks[t].private_key)

\* One call at a time gives what generate_client_signature gives.
SequentialAgrees ==
    \A t \in TaskIds :
        (tasks[t].pc = "done" /\ \A u \in TaskIds \ {t} : tasks[u].pc = "call") =>
            LET r == generate_client_signature(tasks[t].request, worker,
                         tasks[t].private_key, tasks[t].nonce, "None", "None")
            IN  /\ r.ret = tasks[t].ret
                /\ r.ret = "signed" =>
                      /\ r.request.params = tasks[t].params
                      /\ self_private_key = r.private_key
                      /\ self_public_key = r.public_key

(***************************************************************************)
(* The whole: any one of the five.                                         *)
(***************************************************************************)
Init == InitVerify \/ InitSign \/ InitHash \/ InitHeader \/ InitConcurrent

Next ==
    \/ VerifySignatureCall
    \/ TamperOutData
    \/ GenerateClientSignatureCall
    \/ ComputeItemHash
    \/ ComputeHeaderHash
    \/ NextConcurrent

Spec == Init /\ [][Next]_vars

=============================================================================
